---------------------------- MODULE Spec2Model ----------------------------
(***************************************************************************)
(* Token pool of the SR-IOV forwarder (pkg/sriov/token/pool.go).           *)
(*                                                                         *)
(* A *token struct of the Go code is a slot of the heap `token`; the three *)
(* indices of the Pool (tokens, tokensByNames, closedTokens) hold slots,   *)
(* as the Go maps hold pointers.  A token name is the sequence of its path *)
(* segments: path.Join(serviceDomain, capability) is <<sd, cap>>.          *)
(***************************************************************************)
EXTENDS Integers, Sequences, FiniteSets, TLC

(***************************************************************************)
(* Bounds of the model.                                                    *)
(***************************************************************************)
NumVFs == 2          \* virtual functions of the physical function
MaxRestoreLen == 1   \* longest id list of one name in a Restore argument
MaxListeners == 1    \* listeners that may be registered
MaxFires == 2        \* `go listener()` statements run for one listener
NumThreads == 2      \* goroutines that call the pool concurrently
NumConns == 2        \* connections that pass through the token client
IdsPerName == 1      \* token ids the environment offers under one name

(***************************************************************************)
(* const ( free state = iota; allocated; inUse; closed )                   *)
(***************************************************************************)
free == 0
allocated == 1
inUse == 2
closed == 3

(***************************************************************************)
(* Error kinds of the pool.  The Go code returns errors.New/Errorf values; *)
(* each distinct message is one kind.  NoError is Go's nil error.          *)
(***************************************************************************)
NoError == "nil"
ErrAlreadyDirty == "AlreadyDirty"
ErrInvalidId == "InvalidId"
ErrBadState == "BadState"
ErrClosedToken == "ClosedToken"

(***************************************************************************)
(* The configuration the pool is built from: one physical function with    *)
(* NumVFs virtual functions, one service domain and two capabilities, so   *)
(* that every VF is advertised under two names.                            *)
(***************************************************************************)
Cfg ==
    << [ ServiceDomains |-> << "d1" >>,
         Capabilities |-> << "intel", "10G" >>,
         VirtualFunctions |-> NumVFs ] >>

\* The same physical function with a single virtual function: the pool the
\* listeners are observed on, where the size of the pool plays no part.
CfgListeners ==
    << [ ServiceDomains |-> << "d1" >>,
         Capabilities |-> << "intel", "10G" >>,
         VirtualFunctions |-> 1 ] >>

\* path.Join(serviceDomain, capability): the name as its path segments.
Join(serviceDomain, capability) == << serviceDomain, capability >>

\* sriovtokens.NewTokenID(): the n-th identifier generated, fresh each time.
NewTokenID(n) == "t" \o ToString(n)

RECURSIVE Flatten(_)
Flatten(ss) ==
    IF ss = << >> THEN << >> ELSE Head(ss) \o Flatten(Tail(ss))

\* The names of the tokens NewPool creates for one physical function, in
\* creation order: for serviceDomain, for capability, for i < len(VFs).
PFNames(pfCfg) ==
    Flatten([ i \in 1..Len(pfCfg.ServiceDomains) |->
        Flatten([ j \in 1..Len(pfCfg.Capabilities) |->
            [ k \in 1..pfCfg.VirtualFunctions |->
                Join(pfCfg.ServiceDomains[i], pfCfg.Capabilities[j]) ] ]) ])

CreatedNames(cfg) == Flatten([ p \in 1..Len(cfg) |-> PFNames(cfg[p]) ])

Range(s) == { s[i] : i \in 1..Len(s) }

\* Go map operations on a TLA+ function.
MapPut(f, k, v) == [ x \in (DOMAIN f) \cup {k} |-> IF x = k THEN v ELSE f[x] ]
MapDelete(f, k) == [ x \in (DOMAIN f) \ {k} |-> f[x] ]
\* f[k] of a map of slices: the nil slice when k is no key.
MapGet(f, k) == IF k \in DOMAIN f THEN f[k] ELSE << >>
EmptyMap == [ x \in {} |-> 0 ]

\* func NewPool(cfg): the heap of tokens and the three indices.
NewPool(cfg) ==
    LET names == CreatedNames(cfg)
        N == Len(names)
        slotsOf(name) == SelectSeq([ s \in 1..N |-> s ], LAMBDA s : names[s] = name)
    IN  [ token |-> [ s \in 1..N |->
                        [ id |-> NewTokenID(s), name |-> names[s], state |-> free ] ],
          tokens |-> [ id \in { NewTokenID(s) : s \in 1..N } |->
                        CHOOSE s \in 1..N : NewTokenID(s) = id ],
          tokensByNames |-> [ name \in Range(names) |-> slotsOf(name) ],
          closedTokens |-> EmptyMap ]

VARIABLES
    token,           \* the token structs: slot -> [id, name, state]
    tokens,          \* Pool.tokens: id -> slot
    tokensByNames,   \* Pool.tokensByNames: name -> sequence of slots
    closedTokens,    \* Pool.closedTokens: id -> sequence of slots
    listeners,       \* Pool.listeners
    dirty,           \* Pool.dirty
    spawned,         \* per listener: `go listener()` statements executed
    invoked,         \* per listener: listener goroutines that have run
    locked,          \* Pool.lock: TRUE while the sync.Mutex is held
    threads,         \* per calling goroutine: its call and its place in it
    entered,         \* per listener: goroutines that have taken Pool.lock
    assigned,        \* tokenClient.config: token id -> connection id, "" for none
    last,            \* the last call through the token client, as its caller
                     \* and the downstream client saw it, and the id its
                     \* connection held when it began
    vfs,             \* resource.Pool: PCI address -> [tokenID, driver]
    sel,             \* the last call of the resource pool and the one before
    called           \* the last call of the token pool, as its caller saw it

vars == << token, tokens, tokensByNames, closedTokens, listeners, dirty,
           spawned, invoked, locked, threads, entered, assigned, last, vfs, sel,
           called >>

pool == << token, tokens, tokensByNames, closedTokens >>

\* The mutex and the goroutines at it: untouched where calls run one by one.
lockVars == << locked, threads, entered >>

\* The token client of the forwarder chain (chains/forwarder/server.go).
clientVars == << assigned, last >>

\* The pool with all its listeners and goroutines.
poolVars == << pool, listeners, dirty, spawned, invoked, lockVars >>

\* The resource pool over the token pool (pkg/sriov/resource).
resourceVars == << vfs, sel >>

\* A step of the pool alone, its calls made one by one.
OnlyPool == UNCHANGED << lockVars, clientVars, resourceVars, called >>
\* A step of the goroutines at the pool.
OnlyLock == UNCHANGED << clientVars, resourceVars, called >>
\* A step of the token client.
OnlyClient == UNCHANGED << poolVars, resourceVars, called >>
\* A step of the resource pool, which calls the token pool.
OnlyResource == UNCHANGED << lockVars, clientVars, called >>
\* A call of the token pool whose caller notes what it called and got.
OnlyCaller == UNCHANGED << lockVars, clientVars, resourceVars >>

\* No call has passed through the token client.
NoCall ==
    [ op |-> "", conn |-> "", held |-> {}, err |-> "", invoked |-> FALSE,
      request |-> << >>, forwarded |-> << >>, returned |-> << >> ]

\* A goroutine that is in no call of the pool.
IdleThread ==
    [ pc |-> "idle", op |-> "", id |-> "", names |-> << >>, m |-> << >>,
      i |-> 0, err |-> "", expect |-> << >> ]

\* The pool NewPool(cfg) returns: nothing registered, nothing touched.
\* The PCI address of the v-th virtual function of the physical function.
PciAddr(v) == "0000:01:00." \o ToString(v)

\* A virtual function no token holds, bound to no driver.
FreeVF == [ tokenID |-> "", driver |-> "" ]

\* No call of the resource pool.
NoSelect ==
    [ op |-> "", tokenID |-> "", driver |-> "", addr |-> "", err |-> "", free |-> {} ]

\* No call of the token pool.  `after` is the error of the call before when
\* that call was Allocate of the same id, and "" otherwise.
NoPoolCall == [ op |-> "", id |-> "", err |-> "", after |-> "" ]

\* A call of the resource pool, with the call made before it when that one
\* was for the same token and driver and returned no error.
After(call, before) ==
    [ op |-> call.op, tokenID |-> call.tokenID, driver |-> call.driver,
      addr |-> call.addr, err |-> call.err, free |-> call.free,
      prev |-> IF /\ before.err = NoError
                  /\ before.tokenID = call.tokenID
                  /\ before.driver = call.driver
               THEN [ op |-> before.op, addr |-> before.addr ]
               ELSE [ op |-> "", addr |-> "" ] ]

InitOf(cfg) ==
    /\ token = NewPool(cfg).token
    /\ tokens = NewPool(cfg).tokens
    /\ tokensByNames = NewPool(cfg).tokensByNames
    /\ closedTokens = NewPool(cfg).closedTokens
    /\ listeners = << >>
    /\ dirty = FALSE
    /\ spawned = << >>
    /\ invoked = << >>
    /\ locked = FALSE
    /\ threads = [ t \in 1..NumThreads |-> IdleThread ]
    /\ entered = [ l \in 1..MaxListeners |-> 0 ]
    /\ assigned = [ id \in { "a" \o ToString(i) : i \in 1..IdsPerName }
                            \cup { "b" \o ToString(i) : i \in 1..IdsPerName } |-> "" ]
    /\ last = NoCall
    /\ vfs = [ a \in { PciAddr(v) : v \in 1..NumVFs } |-> FreeVF ]
    /\ sel = After(NoSelect, NoSelect)
    /\ called = NoPoolCall

Init == InitOf(Cfg)
InitListeners == InitOf(CfgListeners)

(***************************************************************************)
(* Inputs of the calls.                                                    *)
(***************************************************************************)
KnownNames == DOMAIN NewPool(Cfg).tokensByNames
UnknownName == << "d9", "none" >>
UnknownId == "nope"
\* Every id the pool knows, and one it does not.
IdInputs == DOMAIN tokens \cup { UnknownId }
NameInputs == KnownNames \cup { UnknownName }
SeqsUpTo(S, n) == UNION { [ 1..k -> S ] : k \in 0..n }
\* The `names` of Use: as long as the list of the names of a physical
\* function, with names repeated, left out, or unknown to the pool.
NamesInputs == SeqsUpTo(NameInputs, Cardinality(KnownNames))
\* Use called with the names of the physical function, each once.
AllNamesInputs ==
    { names \in [ 1..Cardinality(KnownNames) -> KnownNames ] : Range(names) = KnownNames }
\* Ids a previous process generation may hand to Restore: foreign ids, and
\* one equal to an id NewPool has just generated for the second name.
ForeignIds == { "X" }
RestoreIds == { "X", "Y", NewTokenID(NumVFs + 1) }
\* A Go map handed to Restore, as the sequence of its entries in the order
\* `range` happens to visit them: any order, no name twice.  The ids given
\* for a name the pool does not know are never read: one list stands for all.
RestoreEntries(ids, n) ==
    [ name : KnownNames, ids : SeqsUpTo(ids, n) ]
        \cup [ name : { UnknownName }, ids : { << "X" >> } ]
RestoreInputs(ids, n) ==
    { m \in SeqsUpTo(RestoreEntries(ids, n), Cardinality(NameInputs)) :
        \A i, j \in 1..Len(m) : i # j => m[i].name # m[j].name }
NarrowRestoreInputs == RestoreInputs(ForeignIds, MaxRestoreLen)
WideRestoreInputs == RestoreInputs(RestoreIds, MaxRestoreLen + 1)
\* On a dirty pool Restore returns before it reads its argument.
RestoreInputsAt(isDirty, inputs) == IF isDirty THEN { << >> } ELSE inputs

(***************************************************************************)
(* func (p *Pool) find(id): the slot of the token, 0 for (nil, error).     *)
(***************************************************************************)
find(id) == IF id \in DOMAIN tokens THEN tokens[id] ELSE 0

(***************************************************************************)
(* Restore: the body of the inner loop, on st = [token, tokens].           *)
(***************************************************************************)
RestoreToken(st, tok, id) ==
    LET deleted == MapDelete(st.tokens, st.token[tok].id)
    IN  [ token |-> [ st.token EXCEPT ![tok].id = id, ![tok].state = allocated ],
          tokens |-> MapPut(deleted, id, tok) ]

\* for i := 0; i < len(ids) && i < len(toks); i++
RECURSIVE RestoreIdsLoop(_, _, _, _)
RestoreIdsLoop(st, toks, ids, i) ==
    IF i <= Len(ids) /\ i <= Len(toks)
    THEN RestoreIdsLoop(RestoreToken(st, toks[i], ids[i]), toks, ids, i + 1)
    ELSE st

\* The outer loop `for name, ids := range tokens`.
RECURSIVE RestoreLoop(_, _)
RestoreLoop(st, m) ==
    IF m = << >> THEN st
    ELSE LET e == Head(m)
         IN  IF e.name \notin DOMAIN tokensByNames
             THEN RestoreLoop(st, Tail(m))
             ELSE RestoreLoop(RestoreIdsLoop(st, tokensByNames[e.name], e.ids, 1), Tail(m))

\* Restore without the check of p.dirty.
RestoreResultUnlatched(m) ==
    LET st == RestoreLoop([ token |-> token, tokens |-> tokens ], m)
    IN  [ err |-> NoError, token |-> st.token, tokens |-> st.tokens, dirty |-> TRUE ]

\* What Restore(m) returns and leaves: [err, token, tokens, dirty].
RestoreResult(m) ==
    IF dirty
    THEN [ err |-> ErrAlreadyDirty, token |-> token, tokens |-> tokens, dirty |-> dirty ]
    ELSE LET st == RestoreLoop([ token |-> token, tokens |-> tokens ], m)
         IN  [ err |-> NoError, token |-> st.token, tokens |-> st.tokens, dirty |-> TRUE ]

Restore(m) ==
    /\ dirty' = RestoreResult(m).dirty
    /\ token' = RestoreResult(m).token
    /\ tokens' = RestoreResult(m).tokens
    /\ UNCHANGED << tokensByNames, closedTokens, listeners, spawned, invoked >>

(***************************************************************************)
(* AddListener: appends; the new listener has no goroutine yet.            *)
(***************************************************************************)
AddListener(listener) ==
    /\ Len(listeners) < MaxListeners
    /\ listeners' = Append(listeners, listener)
    /\ spawned' = Append(spawned, 0)
    /\ invoked' = Append(invoked, 0)
    /\ UNCHANGED << pool, dirty >>

(***************************************************************************)
(* Tokens: tokens[name][tok.id] = tok.state != closed, assigned in the     *)
(* order of tokensByNames[name], a later token overwriting an equal id.    *)
(***************************************************************************)
RECURSIVE TokensOfName(_, _)
TokensOfName(toks, acc) ==
    IF toks = << >> THEN acc
    ELSE TokensOfName(Tail(toks),
                      MapPut(acc, token[Head(toks)].id, token[Head(toks)].state # closed))

\* The map Tokens() returns.
TokensResult ==
    [ name \in DOMAIN tokensByNames |-> TokensOfName(tokensByNames[name], EmptyMap) ]

Tokens ==
    /\ dirty' = TRUE
    /\ UNCHANGED << pool, listeners, spawned, invoked >>

\* What Find(id) returns: [err, name].
FindResult(id) ==
    IF find(id) = 0
    THEN [ err |-> ErrInvalidId, name |-> << >> ]
    ELSE [ err |-> NoError, name |-> token[find(id)].name ]

Find(id) ==
    /\ dirty' = TRUE
    /\ UNCHANGED << pool, listeners, spawned, invoked >>

(***************************************************************************)
(* `for _, listener := range p.listeners { go listener() }`                *)
(***************************************************************************)
CanFire == \A l \in DOMAIN spawned : spawned[l] < MaxFires
FireListeners == [ l \in DOMAIN listeners |-> spawned[l] + 1 ]

\* A call that returns before it changes a token or reaches the listeners.
Unchanged(err) ==
    [ err |-> err, token |-> token, closedTokens |-> closedTokens, fired |-> FALSE ]

\* stopUsing without `delete(p.closedTokens, tok.id)`: the entry stays.
stopUsingKeepsEntry(id) ==
    LET tok == find(id)
    IN  IF tok = 0 THEN Unchanged(ErrInvalidId)
        ELSE IF token[tok].state # inUse THEN Unchanged(ErrBadState)
        ELSE LET toFree == Range(MapGet(closedTokens, token[tok].id))
                 marked == [ token EXCEPT ![tok].state = allocated ]
             IN  [ err |-> NoError,
                   token |-> [ t \in DOMAIN marked |->
                                 IF t \in toFree
                                 THEN [ marked[t] EXCEPT !.state = free ]
                                 ELSE marked[t] ],
                   closedTokens |-> closedTokens,
                   fired |-> TRUE ]

\* stopUsing that returns before the loop over p.listeners.
stopUsingSilent(id) ==
    LET tok == find(id)
    IN  IF tok = 0 THEN Unchanged(ErrInvalidId)
        ELSE IF token[tok].state # inUse THEN Unchanged(ErrBadState)
        ELSE LET closure == MapGet(closedTokens, token[tok].id)
             IN  [ err |-> NoError,
                   token |-> [ t \in DOMAIN token |->
                                 IF t = tok THEN [ token[t] EXCEPT !.state = allocated ]
                                 ELSE IF t \in Range(closure)
                                      THEN [ token[t] EXCEPT !.state = free ]
                                      ELSE token[t] ],
                   closedTokens |-> MapDelete(closedTokens, token[tok].id),
                   fired |-> FALSE ]

\* stopUsing that forgets the closed tokens: they stay closed.
stopUsingKeepsClosed(id) ==
    LET tok == find(id)
    IN  IF tok = 0 THEN Unchanged(ErrInvalidId)
        ELSE IF token[tok].state # inUse THEN Unchanged(ErrBadState)
        ELSE [ err |-> NoError,
               token |-> [ token EXCEPT ![tok].state = allocated ],
               closedTokens |-> MapDelete(closedTokens, token[tok].id),
               fired |-> TRUE ]

(***************************************************************************)
(* func (p *Pool) stopUsing(id): the error, the token heap and the closure *)
(* map it leaves, and whether it reached the listener loop.                *)
(***************************************************************************)
stopUsing(id) ==
    LET tok == find(id)
    IN  IF tok = 0 THEN Unchanged(ErrInvalidId)
        ELSE IF token[tok].state # inUse THEN Unchanged(ErrBadState)
        ELSE LET toFree == Range(MapGet(closedTokens, token[tok].id))
                 marked == [ token EXCEPT ![tok].state = allocated ]
             IN  [ err |-> NoError,
                   token |-> [ t \in DOMAIN marked |->
                                 IF t \in toFree
                                 THEN [ marked[t] EXCEPT !.state = free ]
                                 ELSE marked[t] ],
                   closedTokens |-> MapDelete(closedTokens, token[tok].id),
                   fired |-> TRUE ]

\* A call on the token heap: the pool after it, the listeners it started.
Apply(r) ==
    /\ r.fired => CanFire
    /\ dirty' = TRUE
    /\ token' = r.token
    /\ closedTokens' = r.closedTokens
    /\ spawned' = IF r.fired THEN FireListeners ELSE spawned
    /\ UNCHANGED << tokens, tokensByNames, listeners, invoked >>

StopUsing(id) == Apply(stopUsing(id))

\* Allocate that marks a token in use allocated without stopUsing.
AllocateResultNoUnwind(id) ==
    LET tok == find(id)
    IN  IF tok = 0 THEN Unchanged(ErrInvalidId)
        ELSE IF token[tok].state = closed THEN Unchanged(ErrClosedToken)
        ELSE [ err |-> NoError,
               token |-> [ token EXCEPT ![tok].state = allocated ],
               closedTokens |-> closedTokens, fired |-> FALSE ]

\* What Allocate(id) returns and leaves.
AllocateResult(id) ==
    LET tok == find(id)
    IN  IF tok = 0 THEN Unchanged(ErrInvalidId)
        ELSE IF token[tok].state = inUse THEN stopUsing(id)
        ELSE IF token[tok].state = closed THEN Unchanged(ErrClosedToken)
        ELSE [ err |-> NoError,
               token |-> [ token EXCEPT ![tok].state = allocated ],
               closedTokens |-> closedTokens, fired |-> FALSE ]

Allocate(id) == Apply(AllocateResult(id))

\* Free without the final `tok.state = free`: only the token in use is
\* changed, by stopUsing.
FreeResultNoMark(id) ==
    LET tok == find(id)
    IN  IF tok = 0 THEN Unchanged(ErrInvalidId)
        ELSE IF token[tok].state = inUse
        THEN [ stopUsing(id) EXCEPT !.err = NoError ]
        ELSE Unchanged(NoError)

\* Free without the `case closed: return nil`: a closed token is freed.
FreeResultFreesClosed(id) ==
    LET tok == find(id)
    IN  IF tok = 0 THEN Unchanged(ErrInvalidId)
        ELSE IF token[tok].state = inUse
        THEN LET r == stopUsing(id)
             IN  [ err |-> NoError,
                   token |-> [ r.token EXCEPT ![tok].state = free ],
                   closedTokens |-> r.closedTokens, fired |-> r.fired ]
        ELSE [ err |-> NoError,
               token |-> [ token EXCEPT ![tok].state = free ],
               closedTokens |-> closedTokens, fired |-> FALSE ]

\* What Free(id) returns and leaves.
FreeResult(id) ==
    LET tok == find(id)
    IN  IF tok = 0 THEN Unchanged(ErrInvalidId)
        ELSE IF token[tok].state = inUse
        THEN LET r == stopUsing(id)
             IN  [ err |-> NoError,
                   token |-> [ r.token EXCEPT ![tok].state = free ],
                   closedTokens |-> r.closedTokens, fired |-> r.fired ]
        ELSE IF token[tok].state = closed THEN Unchanged(NoError)
        ELSE [ err |-> NoError,
               token |-> [ token EXCEPT ![tok].state = free ],
               closedTokens |-> closedTokens, fired |-> FALSE ]

Free(id) == Apply(FreeResult(id))

(***************************************************************************)
(* func (p *Pool) findToClose(name), on the token heap tk: the slot of the *)
(* first free token of the name, else of the first allocated, else 0.      *)
(***************************************************************************)
FirstInState(toks, tk, state) ==
    LET hits == SelectSeq(toks, LAMBDA t : tk[t].state = state)
    IN  IF hits = << >> THEN 0 ELSE Head(hits)

\* findToClose that takes the first token that is not closed, in use or not.
findToCloseInUse(name, tk) ==
    LET hits == SelectSeq(MapGet(tokensByNames, name), LAMBDA t : tk[t].state # closed)
    IN  IF hits = << >> THEN 0 ELSE Head(hits)

\* findToClose with its loops in the other order: allocated tokens first.
findToCloseAllocatedFirst(name, tk) ==
    LET toks == MapGet(tokensByNames, name)
    IN  IF FirstInState(toks, tk, allocated) # 0
        THEN FirstInState(toks, tk, allocated)
        ELSE FirstInState(toks, tk, free)

\* findToClose without its second loop: an allocated token is never chosen.
findToCloseFreeOnly(name, tk) == FirstInState(MapGet(tokensByNames, name), tk, free)

findToClose(name, tk) ==
    LET toks == MapGet(tokensByNames, name)
    IN  IF FirstInState(toks, tk, free) # 0
        THEN FirstInState(toks, tk, free)
        ELSE FirstInState(toks, tk, allocated)

\* CloseFor that closes the token it finds and does not record it.
CloseForUnrecorded(st, tok, name) ==
    IF name = st.token[tok].name THEN st
    ELSE LET tokToClose == findToClose(name, st.token)
         IN  IF tokToClose = 0 THEN st
             ELSE [ token |-> [ st.token EXCEPT ![tokToClose].state = closed ],
                    closedTokens |-> st.closedTokens ]

\* One round of the loop `for i := range names` of Use, on
\* st = [token, closedTokens].
CloseFor(st, tok, name) ==
    IF name = st.token[tok].name THEN st
    ELSE LET tokToClose == findToClose(name, st.token)
         IN  IF tokToClose = 0 THEN st
             ELSE [ token |-> [ st.token EXCEPT ![tokToClose].state = closed ],
                    closedTokens |->
                        MapPut(st.closedTokens, st.token[tok].id,
                               Append(MapGet(st.closedTokens, st.token[tok].id),
                                      tokToClose)) ]

RECURSIVE UseLoop(_, _, _)
UseLoop(st, tok, names) ==
    IF names = << >> THEN st
    ELSE UseLoop(CloseFor(st, tok, Head(names)), tok, Tail(names))

\* Use that refuses a token in use and forgets to refuse a closed one.
UseResultOnClosed(id, names) ==
    LET tok == find(id)
    IN  IF tok = 0 THEN Unchanged(ErrInvalidId)
        ELSE IF token[tok].state = inUse THEN Unchanged(ErrBadState)
        ELSE LET st == UseLoop([ token |-> [ token EXCEPT ![tok].state = inUse ],
                                 closedTokens |-> closedTokens ], tok, names)
             IN  [ err |-> NoError, token |-> st.token,
                   closedTokens |-> st.closedTokens, fired |-> TRUE ]

\* What Use(id, names) returns and leaves.
UseResult(id, names) ==
    LET tok == find(id)
    IN  IF tok = 0 THEN Unchanged(ErrInvalidId)
        ELSE IF token[tok].state = inUse \/ token[tok].state = closed
        THEN Unchanged(ErrBadState)
        ELSE LET st == UseLoop([ token |-> [ token EXCEPT ![tok].state = inUse ],
                                 closedTokens |-> closedTokens ], tok, names)
             IN  [ err |-> NoError, token |-> st.token,
                   closedTokens |-> st.closedTokens, fired |-> TRUE ]

Use(id, names) == Apply(UseResult(id, names))

(***************************************************************************)
(* A goroutine started by `go listener()` runs the listener.               *)
(***************************************************************************)
RunListener(l) ==
    /\ invoked[l] < spawned[l]
    /\ invoked' = [ invoked EXCEPT ![l] = @ + 1 ]
    /\ UNCHANGED << pool, listeners, dirty, spawned >>

(***************************************************************************)
(* Spec: the calls on the tokens, in any order and with any arguments.     *)
(***************************************************************************)
Next ==
    \/ (\E m \in RestoreInputsAt(dirty, NarrowRestoreInputs) : Restore(m)) /\ OnlyPool
    \/ Tokens /\ OnlyPool
    \/ (\E id \in IdInputs : Find(id)) /\ OnlyPool
    \/ (\E id \in IdInputs : Allocate(id)) /\ OnlyPool
    \/ (\E id \in IdInputs : Free(id)) /\ OnlyPool
    \/ (\E id \in IdInputs, names \in NamesInputs : Use(id, names)) /\ OnlyPool
    \/ (\E id \in IdInputs : StopUsing(id)) /\ OnlyPool

Spec == Init /\ [][Next]_vars

(***************************************************************************)
(* SpecVF: every Use passes the names of the physical function, each once. *)
(***************************************************************************)
NextVF ==
    \/ (\E m \in RestoreInputsAt(dirty, NarrowRestoreInputs) : Restore(m)) /\ OnlyPool
    \/ (\E id \in IdInputs : Allocate(id)) /\ OnlyPool
    \/ (\E id \in IdInputs : Free(id)) /\ OnlyPool
    \/ (\E id \in IdInputs, names \in AllNamesInputs : Use(id, names)) /\ OnlyPool
    \/ (\E id \in IdInputs : StopUsing(id)) /\ OnlyPool

SpecVF == Init /\ [][NextVF]_vars

(***************************************************************************)
(* The pool with a caller that keeps what its last call of Allocate or     *)
(* Free was and what it got, and of any other call only that it was made.  *)
(***************************************************************************)
Called(op, id, err) ==
    called' = [ op |-> op, id |-> id, err |-> err,
                after |-> IF op = "Free" /\ called.op = "Allocate" /\ called.id = id
                          THEN called.err ELSE "" ]

CalledOther == called' = [ NoPoolCall EXCEPT !.op = "other" ]

NextCalls ==
    \/ (\E id \in IdInputs : Find(id) /\ CalledOther) /\ OnlyCaller
    \/ (\E id \in IdInputs : Allocate(id) /\ Called("Allocate", id, AllocateResult(id).err))
           /\ OnlyCaller
    \/ (\E id \in IdInputs : Free(id) /\ Called("Free", id, FreeResult(id).err))
           /\ OnlyCaller
    \/ (\E id \in IdInputs, names \in NamesInputs : Use(id, names) /\ CalledOther)
           /\ OnlyCaller
    \/ (\E id \in IdInputs : StopUsing(id) /\ CalledOther) /\ OnlyCaller

SpecCalls == Init /\ [][NextCalls]_vars

(***************************************************************************)
(* SpecRestore: Restore is handed any id lists: ids repeated in a name or  *)
(* across names, ids the pool has generated itself.                        *)
(***************************************************************************)
NextRestore ==
    \/ (\E m \in RestoreInputsAt(dirty, WideRestoreInputs) : Restore(m)) /\ OnlyPool
    \/ Tokens /\ OnlyPool
    \/ (\E id \in IdInputs : Find(id)) /\ OnlyPool
    \/ (\E id \in IdInputs : Allocate(id)) /\ OnlyPool
    \/ (\E id \in IdInputs : Free(id)) /\ OnlyPool
    \/ (\E id \in IdInputs, names \in NamesInputs : Use(id, names)) /\ OnlyPool
    \/ (\E id \in IdInputs : StopUsing(id)) /\ OnlyPool

SpecRestore == Init /\ [][NextRestore]_vars

(***************************************************************************)
(* SpecListeners: the calls with listeners registered, and the goroutines  *)
(* the calls start.  The Go scheduler runs every goroutine eventually.     *)
(***************************************************************************)
NextListeners ==
    \/ (\E m \in RestoreInputsAt(dirty, NarrowRestoreInputs) : Restore(m)) /\ OnlyPool
    \/ (\E listener \in { "f" } : AddListener(listener)) /\ OnlyPool
    \/ Tokens /\ OnlyPool
    \/ (\E id \in IdInputs : Find(id)) /\ OnlyPool
    \/ (\E id \in IdInputs : Allocate(id)) /\ OnlyPool
    \/ (\E id \in IdInputs : Free(id)) /\ OnlyPool
    \/ (\E id \in IdInputs, names \in NamesInputs : Use(id, names)) /\ OnlyPool
    \/ (\E id \in IdInputs : StopUsing(id)) /\ OnlyPool
    \/ (\E l \in DOMAIN listeners : RunListener(l)) /\ OnlyPool

SpecListeners ==
    /\ InitListeners
    /\ [][NextListeners]_vars
    /\ \A l \in 1..MaxListeners :
           WF_vars(l \in DOMAIN listeners /\ RunListener(l) /\ OnlyPool)

(***************************************************************************)
(* The calls as concurrent goroutines at Pool.lock.  Every public method   *)
(* starts with p.lock.Lock() and a deferred p.lock.Unlock(); its body runs *)
(* in between.  A goroutine blocked in Lock() is one whose Lock step is    *)
(* not enabled.  The loop of Use runs one round per step.                  *)
(***************************************************************************)
\* The calls a goroutine may make: [op, id, names, m].
PoolCall(op, id, names, m) == [ op |-> op, id |-> id, names |-> names, m |-> m ]

Calls ==
    { PoolCall("Restore", "", << >>, m) : m \in RestoreInputsAt(dirty, NarrowRestoreInputs) }
        \cup { PoolCall(op, "", << >>, << >>) : op \in { "AddListener", "Tokens" } }
        \cup { PoolCall(op, id, << >>, << >>) :
                 op \in { "Find", "Allocate", "Free", "StopUsing" }, id \in IdInputs }
        \cup { PoolCall("Use", id, names, << >>) : id \in IdInputs, names \in AllNamesInputs }

\* What the call returns and leaves when nothing runs beside it.
Outcome(c) ==
    LET r == CASE c.op = "Allocate" -> AllocateResult(c.id)
               [] c.op = "Free" -> FreeResult(c.id)
               [] c.op = "StopUsing" -> stopUsing(c.id)
               [] c.op = "Use" -> UseResult(c.id, c.names)
               [] c.op = "Find" -> Unchanged(FindResult(c.id).err)
               [] OTHER -> Unchanged(NoError)
    IN  IF c.op = "Restore"
        THEN [ err |-> RestoreResult(c.m).err, token |-> RestoreResult(c.m).token,
               tokens |-> RestoreResult(c.m).tokens, closedTokens |-> closedTokens,
               fired |-> FALSE ]
        ELSE [ err |-> r.err, token |-> r.token, tokens |-> tokens,
               closedTokens |-> r.closedTokens, fired |-> r.fired ]

\* The calls the bounds of the model leave room for.
InBounds(c) ==
    /\ Outcome(c).fired => CanFire
    /\ c.op = "AddListener" => Len(listeners) < MaxListeners

\* p.lock.Lock() that returns although the mutex is held.
LockUnguarded(t, c) ==
    /\ threads[t].pc = "idle"
    /\ InBounds(c)
    /\ locked' = TRUE
    /\ threads' = [ threads EXCEPT ![t] =
                      [ pc |-> "body", op |-> c.op, id |-> c.id, names |-> c.names,
                        m |-> c.m, i |-> 1, err |-> NoError, expect |-> Outcome(c) ] ]
    /\ UNCHANGED << pool, listeners, dirty, spawned, invoked, entered >>

\* p.lock.Lock() of goroutine t entering call c: returns when the mutex is free.
Lock(t, c) ==
    /\ threads[t].pc = "idle"
    /\ ~locked
    /\ InBounds(c)
    /\ locked' = TRUE
    /\ threads' = [ threads EXCEPT ![t] =
                      [ pc |-> "body", op |-> c.op, id |-> c.id, names |-> c.names,
                        m |-> c.m, i |-> 1, err |-> NoError, expect |-> Outcome(c) ] ]
    /\ UNCHANGED << pool, listeners, dirty, spawned, invoked, entered >>

\* Goroutine t moves to pc with the error its call will return.
Goto(t, pc, err) ==
    /\ threads' = [ threads EXCEPT ![t].pc = pc, ![t].err = err ]
    /\ UNCHANGED << locked, entered >>

\* The body of every method but Use, up to its return statement.
Body(t) ==
    LET c == threads[t]
    IN  /\ c.pc = "body"
        /\ \/ c.op = "Restore" /\ Restore(c.m) /\ Goto(t, "unlock", RestoreResult(c.m).err)
           \/ c.op = "AddListener" /\ AddListener("f") /\ Goto(t, "unlock", NoError)
           \/ c.op = "Tokens" /\ Tokens /\ Goto(t, "unlock", NoError)
           \/ c.op = "Find" /\ Find(c.id) /\ Goto(t, "unlock", FindResult(c.id).err)
           \/ c.op = "Allocate" /\ Allocate(c.id) /\ Goto(t, "unlock", AllocateResult(c.id).err)
           \/ c.op = "Free" /\ Free(c.id) /\ Goto(t, "unlock", FreeResult(c.id).err)
           \/ c.op = "StopUsing" /\ StopUsing(c.id) /\ Goto(t, "unlock", stopUsing(c.id).err)

\* Use up to its loop: p.dirty = true, find, the check of the state,
\* tok.state = inUse.
UseMark(t) ==
    LET c == threads[t]
        tok == find(c.id)
    IN  /\ c.pc = "body"
        /\ c.op = "Use"
        /\ dirty' = TRUE
        /\ UNCHANGED << tokens, tokensByNames, closedTokens, listeners, spawned, invoked >>
        /\ IF tok = 0
           THEN UNCHANGED token /\ Goto(t, "unlock", ErrInvalidId)
           ELSE IF token[tok].state = inUse \/ token[tok].state = closed
           THEN UNCHANGED token /\ Goto(t, "unlock", ErrBadState)
           ELSE /\ token' = [ token EXCEPT ![tok].state = inUse ]
                /\ Goto(t, "loop", NoError)

\* One round of `for i := range names`.
UseClose(t) ==
    LET c == threads[t]
        st == CloseFor([ token |-> token, closedTokens |-> closedTokens ],
                       find(c.id), c.names[c.i])
    IN  /\ c.pc = "loop"
        /\ c.i <= Len(c.names)
        /\ find(c.id) # 0
        /\ token' = st.token
        /\ closedTokens' = st.closedTokens
        /\ threads' = [ threads EXCEPT ![t].i = c.i + 1 ]
        /\ UNCHANGED << tokens, tokensByNames, listeners, dirty, spawned, invoked,
                        locked, entered >>

\* Use that calls listener() itself: the listener blocks in the Lock() of
\* Tokens on the mutex its caller holds.
UseFireInline(t) ==
    /\ threads[t].pc = "loop"
    /\ threads[t].i > Len(threads[t].names)
    /\ threads' = [ threads EXCEPT ![t].pc = "listener" ]
    /\ UNCHANGED << pool, listeners, dirty, spawned, invoked, locked, entered >>

\* The loop is over: `go listener()` for every listener, then return nil.
UseFire(t) ==
    /\ threads[t].pc = "loop"
    /\ threads[t].i > Len(threads[t].names)
    /\ spawned' = FireListeners
    /\ threads' = [ threads EXCEPT ![t].pc = "unlock" ]
    /\ UNCHANGED << pool, listeners, dirty, invoked, locked, entered >>

\* The deferred p.lock.Unlock(), and the return.
Unlock(t) ==
    /\ threads[t].pc = "unlock"
    /\ locked' = FALSE
    /\ threads' = [ threads EXCEPT ![t] = IdleThread ]
    /\ UNCHANGED << pool, listeners, dirty, spawned, invoked, entered >>

\* A goroutine of listener l, a listener that reads p.Tokens(): Lock() and
\* the body of Tokens.
ListenerLock(l) ==
    /\ l \in DOMAIN listeners
    /\ entered[l] < spawned[l]
    /\ ~locked
    /\ locked' = TRUE
    /\ entered' = [ entered EXCEPT ![l] = @ + 1 ]
    /\ Tokens
    /\ UNCHANGED threads

\* Tokens returns, the mutex is released and the listener is done.
ListenerUnlock(l) ==
    /\ l \in DOMAIN listeners
    /\ invoked[l] < entered[l]
    /\ locked' = FALSE
    /\ invoked' = [ invoked EXCEPT ![l] = @ + 1 ]
    /\ UNCHANGED << pool, listeners, dirty, spawned, threads, entered >>

\* A goroutine inside a call runs on.
Run(t) == Body(t) \/ UseMark(t) \/ UseClose(t) \/ UseFire(t) \/ Unlock(t)

NextLock ==
    \/ (\E t \in 1..NumThreads : \E c \in Calls : Lock(t, c)) /\ OnlyLock
    \/ (\E t \in 1..NumThreads : Body(t)) /\ OnlyLock
    \/ (\E t \in 1..NumThreads : UseMark(t)) /\ OnlyLock
    \/ (\E t \in 1..NumThreads : UseClose(t)) /\ OnlyLock
    \/ (\E t \in 1..NumThreads : UseFire(t)) /\ OnlyLock
    \/ (\E t \in 1..NumThreads : Unlock(t)) /\ OnlyLock
    \/ (\E l \in 1..MaxListeners : ListenerLock(l)) /\ OnlyLock
    \/ (\E l \in 1..MaxListeners : ListenerUnlock(l)) /\ OnlyLock

\* The scheduler runs every goroutine that can run; a goroutine waiting in
\* Lock() gets the mutex (sync.Mutex hands it to a starving waiter).
SpecLock ==
    /\ InitListeners
    /\ [][NextLock]_vars
    /\ \A t \in 1..NumThreads : WF_vars(Run(t) /\ OnlyLock)
    /\ \A l \in 1..MaxListeners :
           /\ SF_vars(ListenerLock(l) /\ OnlyLock)
           /\ WF_vars(ListenerUnlock(l) /\ OnlyLock)

(***************************************************************************)
(* The token client (chains/forwarder/server.go, package multitoken).      *)
(*                                                                         *)
(* A connection is [id, labels]; a request is [conn, labels, mechs], with  *)
(* labels the labels of its connection and mechs the Parameters of its     *)
(* mechanism preferences.  A nil map reads as the empty map: Request reads *)
(* the labels with `tokenName, ok = labels[...]` and replaces nil          *)
(* Parameters by an empty map before it writes.  A token name is the       *)
(* sequence of its "/"-separated segments, as in the pool.                 *)
(***************************************************************************)
sriovTokenLabel == "sriovToken"
serviceDomainLabel == "serviceDomain"
DeviceTokenIDKey == "deviceTokenId"

ErrNoFreeToken == "NoFreeToken"
ErrDownstream == "DownstreamError"

Conns == { "c" \o ToString(n) : n \in 1..NumConns }

\* tokens.FromEnv(os.Environ()): the ids the environment offers, by name.
EnvTokens ==
    (<< "d1", "intel" >> :> [ i \in 1..IdsPerName |-> "a" \o ToString(i) ])
        @@ (<< "d2", "10G" >> :> [ i \in 1..IdsPerName |-> "b" \o ToString(i) ])

\* The ids a connection holds in the entries cfg.
HeldBy(cfg, conn) == { id \in DOMAIN cfg : cfg[id] = conn }

\* c.config.get(conn): an id the connection holds, "" for none.
get(conn) ==
    IF HeldBy(assigned, conn) = {} THEN ""
    ELSE CHOOSE id \in HeldBy(assigned, conn) : TRUE

\* c.config.assign(tokenName, conn): the id of the name the connection holds
\* already, else the first id of the name that no connection holds, else "".
assign(tokenName, conn) ==
    LET ids == MapGet(EnvTokens, tokenName)
        own == SelectSeq(ids, LAMBDA id : assigned[id] = conn)
        unheld == SelectSeq(ids, LAMBDA id : assigned[id] = "")
    IN  IF own # << >> THEN [ id |-> Head(own), assigned |-> assigned ]
        ELSE IF unheld = << >> THEN [ id |-> "", assigned |-> assigned ]
        ELSE [ id |-> Head(unheld),
               assigned |-> [ assigned EXCEPT ![Head(unheld)] = conn ] ]

\* c.config.release(conn), on the entries cfg: every id the connection holds.
release(cfg, conn) == [ id \in DOMAIN cfg |-> IF cfg[id] = conn THEN "" ELSE cfg[id] ]

\* strings.Split(tokenName, "/")[0]
FirstSegment(tokenName) == tokenName[1]

\* The loop over request.GetMechanismPreferences().
SetDeviceTokenID(mechs, tokenID) ==
    [ i \in 1..Len(mechs) |-> MapPut(mechs[i], DeviceTokenIDKey, tokenID) ]

\* next.Client(ctx).Request: a downstream client that answers with the
\* connection of the request it was given, or fails.
NextRequest(request, down) ==
    IF down = "ok"
    THEN [ err |-> NoError, conn |-> [ id |-> request.conn, labels |-> request.labels ] ]
    ELSE [ err |-> ErrDownstream, conn |-> << >> ]

\* The zero value of tokenName: the empty string, a single empty segment.
EmptyName == << "" >>

\* The check of tokenID that is missing: Request goes on without a token.
NoTokenUnchecked(ok, tokenID) == FALSE

\* `if tokenID == ""` inside `if tokenName, ok = labels[sriovTokenLabel]; ok`.
NoToken(ok, tokenID) == ok /\ tokenID = ""

\* The clone that keeps the label and takes the whole name for the domain.
CloneWithTokenKeepsLabel(request, tokenName, tokenID) ==
    [ conn |-> request.conn,
      labels |-> MapPut(request.labels, serviceDomainLabel, tokenName),
      mechs |-> SetDeviceTokenID(request.mechs, tokenID) ]

\* request.Clone() without the label, with the service domain and the id.
CloneWithToken(request, tokenName, tokenID) ==
    [ conn |-> request.conn,
      labels |-> MapPut(MapDelete(request.labels, sriovTokenLabel),
                        serviceDomainLabel, FirstSegment(tokenName)),
      mechs |-> SetDeviceTokenID(request.mechs, tokenID) ]

\* The release that does not ask whether the connection was established.
ShouldReleaseEstablished(err, tokenID, isEstablished) ==
    err # NoError /\ tokenID # ""

\* `if err != nil && tokenID != "" && !isEstablished`
ShouldRelease(err, tokenID, isEstablished) ==
    err # NoError /\ tokenID # "" /\ ~isEstablished

\* `if err == nil && tokenName != ""`: the labels of the returned connection.
RestoreLabels(d, tokenName) ==
    IF d.err = NoError /\ tokenName # EmptyName
    THEN [ d.conn EXCEPT !.labels =
             MapPut(MapDelete(@, serviceDomainLabel), sriovTokenLabel, tokenName) ]
    ELSE d.conn

\* What Request(request) returns and leaves, with the downstream client
\* answering down: [err, conn, invoked, forwarded, assigned].
RequestResult(request, down) ==
    LET isEstablished == get(request.conn) # ""
        ok == sriovTokenLabel \in DOMAIN request.labels
        tokenName == IF ok THEN request.labels[sriovTokenLabel] ELSE EmptyName
        a == IF ok THEN assign(tokenName, request.conn)
                   ELSE [ id |-> "", assigned |-> assigned ]
        tokenID == a.id
    IN  IF NoToken(ok, tokenID)
        THEN [ err |-> ErrNoFreeToken, conn |-> << >>, invoked |-> FALSE,
               forwarded |-> << >>, assigned |-> a.assigned ]
        ELSE LET clone == IF ok THEN CloneWithToken(request, tokenName, tokenID)
                                ELSE request
                 d == NextRequest(clone, down)
                 released == IF ShouldRelease(d.err, tokenID, isEstablished)
                             THEN release(a.assigned, clone.conn)
                             ELSE a.assigned
             IN  [ err |-> d.err, conn |-> RestoreLabels(d, tokenName),
                   invoked |-> TRUE, forwarded |-> clone, assigned |-> released ]

Request(request, down) ==
    LET r == RequestResult(request, down)
    IN  /\ assigned' = r.assigned
        /\ last' = [ op |-> "Request", conn |-> request.conn,
                     held |-> HeldBy(assigned, request.conn), err |-> r.err,
                     invoked |-> r.invoked, request |-> request,
                     forwarded |-> r.forwarded, returned |-> r.conn ]

\* Close that forwards first and releases only when downstream succeeded.
CloseResultForwardsFirst(conn, down) ==
    [ err |-> IF down = "ok" THEN NoError ELSE ErrDownstream,
      invoked |-> TRUE,
      forwarded |-> [ conn |-> conn, held |-> HeldBy(assigned, conn) ],
      assigned |-> IF down = "ok" THEN release(assigned, conn) ELSE assigned ]

\* What Close(conn) returns and leaves: the downstream Close is given the
\* connection after c.config.release(conn); held is the id it holds then.
CloseResult(conn, down) ==
    LET released == release(assigned, conn)
    IN  [ err |-> IF down = "ok" THEN NoError ELSE ErrDownstream,
          invoked |-> TRUE,
          forwarded |-> [ conn |-> conn, held |-> HeldBy(released, conn) ],
          assigned |-> released ]

Close(conn, down) ==
    LET r == CloseResult(conn, down)
    IN  /\ assigned' = r.assigned
        /\ last' = [ op |-> "Close", conn |-> conn, held |-> HeldBy(assigned, conn),
                     err |-> r.err,
                     invoked |-> r.invoked, request |-> << >>,
                     forwarded |-> r.forwarded, returned |-> << >> ]

\* The requests that arrive: with and without the label, with names the
\* environment offers, one it does not and the empty name, with other labels
\* beside, with mechanism preferences with and without parameters.
ClientNameInputs == DOMAIN EnvTokens \cup { UnknownName, EmptyName }
LabelInputs ==
    { EmptyMap, serviceDomainLabel :> "old" }
        \cup { sriovTokenLabel :> name : name \in ClientNameInputs }
        \cup { (sriovTokenLabel :> name) @@ (serviceDomainLabel :> "old") :
                 name \in ClientNameInputs }
MechInputs ==
    { << >>, << EmptyMap >>, << EmptyMap, DeviceTokenIDKey :> "stale" >> }
RequestInputs == [ conn : Conns, labels : LabelInputs, mechs : MechInputs ]
DownInputs == { "ok", "fail" }

NextClient ==
    \/ (\E request \in RequestInputs, down \in DownInputs : Request(request, down))
           /\ OnlyClient
    \/ (\E conn \in Conns, down \in DownInputs : Close(conn, down)) /\ OnlyClient

SpecClient == Init /\ [][NextClient]_vars

(***************************************************************************)
(* The resource pool (pkg/sriov/resource): it hands the virtual functions  *)
(* of the physical function to tokens and keeps the token pool informed    *)
(* through Find, Use and StopUsing.  A virtual function is bound to the    *)
(* driver of the token that holds it and to none when no token holds it.   *)
(***************************************************************************)
KernelDriver == "kernel"
VFIOPCIDriver == "vfio-pci"
Drivers == { KernelDriver, VFIOPCIDriver }

ErrNoFreeVF == "NoFreeVF"
ErrNotSelected == "NotSelected"

\* The virtual functions of the physical function, in declared order.
VFOrder == [ v \in 1..NumVFs |-> PciAddr(v) ]

\* All names the physical function is advertised under.
PFAllNames ==
    Flatten([ i \in 1..Len(Cfg[1].ServiceDomains) |->
        [ j \in 1..Len(Cfg[1].Capabilities) |->
            Join(Cfg[1].ServiceDomains[i], Cfg[1].Capabilities[j]) ] ])

\* The virtual functions the token holds in v.
HeldVF(v, tokenID) == { a \in DOMAIN v : v[a].tokenID = tokenID }
\* The virtual functions no token holds in v.
FreeVFs(v) == { a \in DOMAIN v : v[a].tokenID = "" }

\* The first address of order that is in cand, "" for none.
FirstMatch(order, cand) ==
    LET s == SelectSeq(order, LAMBDA a : a \in cand)
    IN  IF s = << >> THEN "" ELSE Head(s)

\* The choice of a virtual function for a token of the name: of the free
\* ones, those bound to the driver first, each in declared order.
ChooseVF(v, name, driverType) ==
    LET bound == { a \in FreeVFs(v) : v[a].driver = driverType }
    IN  IF name \notin Range(PFAllNames) THEN ""
        ELSE IF bound # {} THEN FirstMatch(VFOrder, bound)
        ELSE FirstMatch(VFOrder, FreeVFs(v))

\* A call of the resource pool that leaves everything as it is.
NoSelection(err) ==
    [ err |-> err, addr |-> "", token |-> token, closedTokens |-> closedTokens,
      fired |-> FALSE, vfs |-> vfs ]

\* Pool.Use(id, names) on the token pool a call before it has left as r.
UseAfter(r, id, names) ==
    LET tok == find(id)
    IN  IF r.err # NoError THEN r
        ELSE IF tok = 0 THEN [ r EXCEPT !.err = ErrInvalidId ]
        ELSE IF r.token[tok].state = inUse \/ r.token[tok].state = closed
        THEN [ r EXCEPT !.err = ErrBadState ]
        ELSE LET st == UseLoop([ token |-> [ r.token EXCEPT ![tok].state = inUse ],
                                 closedTokens |-> r.closedTokens ], tok, names)
             IN  [ err |-> NoError, token |-> st.token,
                   closedTokens |-> st.closedTokens, fired |-> TRUE ]

\* Select that does not look for the virtual function the token holds.
SelectResultNotSticky(tokenID, driverType) ==
    LET f == FindResult(tokenID)
        prior == HeldVF(vfs, tokenID)
        released == IF prior = {} THEN Unchanged(NoError) ELSE stopUsing(tokenID)
        v == [ a \in DOMAIN vfs |-> IF a \in prior THEN FreeVF ELSE vfs[a] ]
        addr == ChooseVF(v, f.name, driverType)
        u == UseAfter(released, tokenID, PFAllNames)
    IN  IF f.err # NoError THEN NoSelection(f.err)
        ELSE IF addr = "" THEN NoSelection(ErrNoFreeVF)
        ELSE IF u.err # NoError THEN NoSelection(u.err)
        ELSE [ err |-> NoError, addr |-> addr, token |-> u.token,
               closedTokens |-> u.closedTokens, fired |-> TRUE,
               vfs |-> [ v EXCEPT ![addr] =
                           [ tokenID |-> tokenID, driver |-> driverType ] ] ]

\* What Select(tokenID, driverType) returns and leaves:
\* [err, addr, token, closedTokens, fired, vfs].  The virtual function the
\* token holds under the driver is returned as it is; one it holds under
\* another driver is freed first (StopUsing, unbind, erase), then a virtual
\* function is chosen, the token is put in use with all names of the
\* physical function, and the virtual function is bound and recorded.
SelectResult(tokenID, driverType) ==
    LET f == FindResult(tokenID)
        prior == HeldVF(vfs, tokenID)
        released == IF prior = {} THEN Unchanged(NoError) ELSE stopUsing(tokenID)
        v == [ a \in DOMAIN vfs |-> IF a \in prior THEN FreeVF ELSE vfs[a] ]
        addr == ChooseVF(v, f.name, driverType)
        u == UseAfter(released, tokenID, PFAllNames)
    IN  IF f.err # NoError THEN NoSelection(f.err)
        ELSE IF \E a \in prior : vfs[a].driver = driverType
        THEN [ NoSelection(NoError) EXCEPT
                 !.addr = CHOOSE a \in prior : vfs[a].driver = driverType ]
        ELSE IF addr = "" THEN NoSelection(ErrNoFreeVF)
        ELSE IF u.err # NoError THEN NoSelection(u.err)
        ELSE [ err |-> NoError, addr |-> addr, token |-> u.token,
               closedTokens |-> u.closedTokens, fired |-> TRUE,
               vfs |-> [ v EXCEPT ![addr] =
                           [ tokenID |-> tokenID, driver |-> driverType ] ] ]

Select(tokenID, driverType) ==
    LET r == SelectResult(tokenID, driverType)
    IN  /\ Apply(r)
        /\ vfs' = r.vfs
        /\ sel' = After([ op |-> "Select", tokenID |-> tokenID, driver |-> driverType,
                          addr |-> r.addr, err |-> r.err, free |-> FreeVFs(vfs) ], sel)

\* What Free(pciAddr) of the resource pool returns and leaves: the token
\* bound to the address stops using, the driver binding is released, the
\* mapping erased.
ResourceFreeResult(pciAddr) ==
    IF pciAddr \notin DOMAIN vfs \/ pciAddr \in FreeVFs(vfs)
    THEN NoSelection(ErrNotSelected)
    ELSE LET r == stopUsing(vfs[pciAddr].tokenID)
         IN  IF r.err # NoError THEN NoSelection(r.err)
             ELSE [ err |-> NoError, addr |-> pciAddr, token |-> r.token,
                    closedTokens |-> r.closedTokens, fired |-> TRUE,
                    vfs |-> [ vfs EXCEPT ![pciAddr] = FreeVF ] ]

ResourceFree(pciAddr) ==
    LET r == ResourceFreeResult(pciAddr)
        bound == IF pciAddr \in DOMAIN vfs THEN vfs[pciAddr] ELSE FreeVF
    IN  /\ Apply(r)
        /\ vfs' = r.vfs
        /\ sel' = After([ op |-> "Free", tokenID |-> bound.tokenID,
                          driver |-> bound.driver, addr |-> pciAddr,
                          err |-> r.err, free |-> FreeVFs(vfs) ], sel)

UnknownPciAddr == "0000:ff:00.0"
PciAddrInputs == DOMAIN vfs \cup { UnknownPciAddr }

NextResource ==
    \/ (\E tokenID \in IdInputs, driverType \in Drivers : Select(tokenID, driverType))
           /\ OnlyResource
    \/ (\E pciAddr \in PciAddrInputs : ResourceFree(pciAddr)) /\ OnlyResource

SpecResource == Init /\ [][NextResource]_vars

(***************************************************************************)
(* Vocabulary of the claims.                                               *)
(***************************************************************************)
StateOf(t) == token[t].state
InState(state) == { t \in DOMAIN token : token[t].state = state }
TokensOf(name) == Range(MapGet(tokensByNames, name))
\* The tokens of a name that findToClose may choose.
Closable(name) == { t \in TokensOf(name) : StateOf(t) \in { free, allocated } }
Consumed(name) == { t \in TokensOf(name) : StateOf(t) \in { inUse, closed } }

(***************************************************************************)
(* C1.  When every Use passes the names of the physical function, a VF is  *)
(* consumed at most once: at most NumVFs tokens are in use, and under each *)
(* name as many tokens are in use or closed as tokens are in use at all.   *)
(***************************************************************************)
C1_VFConsumedOnce ==
    /\ Cardinality(InState(inUse)) <= NumVFs
    /\ \A name \in DOMAIN tokensByNames :
           Cardinality(Consumed(name)) = Cardinality(InState(inUse))

\* Every VF is in use, through tokens of two names, and every other token
\* is closed.
C1_Witness ==
    /\ Cardinality(InState(inUse)) = NumVFs
    /\ InState(closed) # {}
    /\ \E t, u \in InState(inUse) : token[t].name # token[u].name

(***************************************************************************)
(* C2.  Use on a free or allocated token.                                  *)
(***************************************************************************)
Occurrences(name, names) == Cardinality({ i \in 1..Len(names) : names[i] = name })
Min(a, b) == IF a <= b THEN a ELSE b
\* The tokens of a name that the call with result r has closed.
NewlyClosed(r, name) ==
    { t \in TokensOf(name) : StateOf(t) # closed /\ r.token[t].state = closed }
Changed(r) == { t \in DOMAIN token : r.token[t] # token[t] }
Usable(id) == id \in DOMAIN tokens /\ StateOf(tokens[id]) \in { free, allocated }

\* C2 as claimed: a successful Use marks the token in use and, for each name
\* of `names` other than the token's own that has a free or allocated token,
\* closes exactly one token of that name and records it in closedTokens[id],
\* however often the name occurs; no other token changes.
C2_OneClosedPerName ==
    [][ \A id \in IdInputs, names \in NamesInputs :
            (Usable(id) /\ Use(id, names)) =>
                LET tok == tokens[id]
                    after == [ token |-> token', closedTokens |-> closedTokens' ]
                    others == Range(names) \ { token[tok].name }
                IN  /\ UseResult(id, names).err = NoError
                    /\ token'[tok].state = inUse
                    /\ \A name \in others :
                           Closable(name) # {} =>
                               /\ Cardinality(NewlyClosed(after, name)) = 1
                               /\ NewlyClosed(after, name)
                                      \subseteq Range(MapGet(closedTokens', id))
                    /\ \A t \in Changed(after) \ { tok } : token[t].name \in others
      ]_vars

\* C2 as the code has it: a successful Use marks the token in use and, for
\* each occurrence in `names` of a name other than the token's own, closes
\* one token of that name while the name has a free or allocated one, so a
\* name occurring k times loses min(k, its free or allocated tokens); the
\* closed tokens are appended to closedTokens[id]; nothing else changes.
C2_OneClosedPerOccurrence ==
    \A id \in IdInputs, names \in NamesInputs :
        Usable(id) =>
            LET tok == tokens[id]
                r == UseResult(id, names)
                others == Range(names) \ { token[tok].name }
                closedNow == UNION { NewlyClosed(r, name) : name \in others }
            IN  /\ r.err = NoError
                /\ r.fired
                /\ r.token[tok] = [ token[tok] EXCEPT !.state = inUse ]
                /\ \A name \in others :
                       Cardinality(NewlyClosed(r, name)) =
                           Min(Occurrences(name, names), Cardinality(Closable(name)))
                /\ Changed(r) \ { tok } = closedNow
                /\ \A t \in closedNow : r.token[t] = [ token[t] EXCEPT !.state = closed ]
                /\ Range(MapGet(r.closedTokens, id)) =
                       Range(MapGet(closedTokens, id)) \cup closedNow
                /\ Len(MapGet(r.closedTokens, id)) =
                       Len(MapGet(closedTokens, id)) + Cardinality(closedNow)
                /\ \A k \in (DOMAIN closedTokens \cup DOMAIN r.closedTokens) \ { id } :
                       /\ k \in DOMAIN closedTokens /\ k \in DOMAIN r.closedTokens
                       /\ r.closedTokens[k] = closedTokens[k]

\* A Use has closed two tokens of one name on account of one token in use.
C2_Witness ==
    \E id \in DOMAIN closedTokens :
        /\ id \in DOMAIN tokens /\ StateOf(tokens[id]) = inUse
        /\ \E i, j \in 1..Len(closedTokens[id]) :
               /\ i # j
               /\ token[closedTokens[id][i]].name = token[closedTokens[id][j]].name
               /\ StateOf(closedTokens[id][i]) = closed
               /\ StateOf(closedTokens[id][j]) = closed

(***************************************************************************)
(* The closure set of a token in use, and its unwinding.                   *)
(***************************************************************************)
ClosureOf(id) == Range(MapGet(closedTokens, id))

\* The call with result r has unwound the closure set of the token in use
\* with the given id and left that token in state `final`: the tokens of its
\* closure set are free, closedTokens[id] is gone, the listeners are started,
\* and no other token, no id and no other closure set has changed.
Unwinds(r, id, final) ==
    LET tok == tokens[id]
    IN  /\ r.err = NoError
        /\ r.fired
        /\ r.token[tok].state = final
        /\ \A t \in ClosureOf(id) : r.token[t].state = free
        /\ \A t \in DOMAIN token :
               /\ r.token[t].id = token[t].id
               /\ r.token[t].name = token[t].name
               /\ t \notin ClosureOf(id) \cup { tok } => r.token[t].state = token[t].state
        /\ DOMAIN r.closedTokens = DOMAIN closedTokens \ { id }
        /\ \A k \in DOMAIN r.closedTokens : r.closedTokens[k] = closedTokens[k]

\* The call with result r has failed with err and changed nothing.
FailsWith(r, err) ==
    /\ r.err = err
    /\ r.token = token
    /\ r.closedTokens = closedTokens
    /\ ~r.fired

\* The call with result r has succeeded and changed at most the state of
\* the token tok, which it leaves in state `final`.
OnlySets(r, tok, final) ==
    /\ r.err = NoError
    /\ ~r.fired
    /\ r.token = [ token EXCEPT ![tok].state = final ]
    /\ r.closedTokens = closedTokens

Known(id) == id \in DOMAIN tokens

(***************************************************************************)
(* C3.  StopUsing(id) on a token in use leaves it allocated, returns every *)
(* token of closedTokens[id] to free and removes the entry, so no token    *)
(* closed on account of id is still closed; on a free, allocated or closed *)
(* token it fails with BadState and changes nothing.                       *)
(***************************************************************************)
C3_StopUsing ==
    \A id \in IdInputs :
        Known(id) =>
            IF StateOf(tokens[id]) = inUse
            THEN /\ Unwinds(stopUsing(id), id, allocated)
                 /\ \A t \in ClosureOf(id) : stopUsing(id).token[t].state # closed
            ELSE FailsWith(stopUsing(id), ErrBadState)

\* A token in use whose closure set holds closed tokens, which StopUsing
\* frees, beside a token on which StopUsing fails.
C3_Witness ==
    \E id, other \in DOMAIN tokens :
        /\ StateOf(tokens[id]) = inUse
        /\ ClosureOf(id) # {}
        /\ \A t \in ClosureOf(id) :
               StateOf(t) = closed /\ stopUsing(id).token[t].state = free
        /\ StateOf(tokens[other]) = closed
        /\ stopUsing(other).err = ErrBadState

(***************************************************************************)
(* C4.  Allocate(id): free -> allocated; allocated -> allocated; in use -> *)
(* allocated with the closure set of id unwound; closed -> fails with      *)
(* ClosedToken and the token stays closed.                                 *)
(***************************************************************************)
C4_Allocate ==
    \A id \in IdInputs :
        Known(id) =>
            LET tok == tokens[id]
                r == AllocateResult(id)
            IN  /\ StateOf(tok) \in { free, allocated } => OnlySets(r, tok, allocated)
                /\ StateOf(tok) = inUse => Unwinds(r, id, allocated)
                /\ StateOf(tok) = closed => FailsWith(r, ErrClosedToken)

\* Allocate meets a token in use whose closure set it unwinds, and a closed
\* token it refuses.
C4_Witness ==
    \E id, other \in DOMAIN tokens :
        /\ StateOf(tokens[id]) = inUse
        /\ ClosureOf(id) # {}
        /\ AllocateResult(id).token[tokens[id]].state = allocated
        /\ \A t \in ClosureOf(id) :
               StateOf(t) = closed /\ AllocateResult(id).token[t].state = free
        /\ StateOf(tokens[other]) = closed
        /\ AllocateResult(other).err = ErrClosedToken

(***************************************************************************)
(* C5.  Free(id) succeeds for every known id: free -> free; allocated ->   *)
(* free; in use -> free with the closure set of id unwound; closed ->      *)
(* closed, nothing changed, the closure set of its owner included.         *)
(***************************************************************************)
C5_Free ==
    \A id \in IdInputs :
        Known(id) =>
            LET tok == tokens[id]
                r == FreeResult(id)
            IN  /\ r.err = NoError
                /\ StateOf(tok) \in { free, allocated } => OnlySets(r, tok, free)
                /\ StateOf(tok) = inUse => Unwinds(r, id, free)
                /\ StateOf(tok) = closed => FailsWith(r, NoError)

\* Free meets a token in use whose closure set it unwinds, and a closed
\* token of that closure set, which it leaves closed.
C5_Witness ==
    \E id, other \in DOMAIN tokens :
        /\ StateOf(tokens[id]) = inUse
        /\ tokens[other] \in ClosureOf(id)
        /\ StateOf(tokens[other]) = closed
        /\ FreeResult(id).token[tokens[id]].state = free
        /\ FreeResult(id).token[tokens[other]].state = free
        /\ FreeResult(other).token[tokens[other]].state = closed
        /\ FreeResult(other).closedTokens = closedTokens

(***************************************************************************)
(* C6.  Every failing call leaves the tokens untouched: a call on an       *)
(* unknown id fails with InvalidId, Use on a token in use or closed with   *)
(* BadState, Allocate on a closed token with ClosedToken, and the step of  *)
(* a failing call changes no token, no id, no closure set and starts no    *)
(* listener.                                                               *)
(***************************************************************************)
C6_ErrorOf(id, names) ==
    /\ ~Known(id) =>
           /\ FindResult(id).err = ErrInvalidId
           /\ AllocateResult(id).err = ErrInvalidId
           /\ FreeResult(id).err = ErrInvalidId
           /\ UseResult(id, names).err = ErrInvalidId
           /\ stopUsing(id).err = ErrInvalidId
    /\ Known(id) /\ StateOf(tokens[id]) \in { inUse, closed } =>
           UseResult(id, names).err = ErrBadState
    /\ Known(id) /\ StateOf(tokens[id]) = closed =>
           AllocateResult(id).err = ErrClosedToken

C6_FailingStep(id, names) ==
    \/ Find(id) /\ FindResult(id).err # NoError
    \/ Allocate(id) /\ AllocateResult(id).err # NoError
    \/ Free(id) /\ FreeResult(id).err # NoError
    \/ Use(id, names) /\ UseResult(id, names).err # NoError
    \/ StopUsing(id) /\ stopUsing(id).err # NoError

C6_FailuresChangeNothing ==
    /\ [](\A id \in IdInputs, names \in NamesInputs : C6_ErrorOf(id, names))
    /\ [][ \A id \in IdInputs, names \in NamesInputs :
               C6_FailingStep(id, names) =>
                   UNCHANGED << token, tokens, tokensByNames, closedTokens,
                                listeners, spawned, invoked >>
         ]_vars

\* With a listener registered, a call on an unknown id has failed (the pool
\* is dirty and as NewPool left it), and further calls fail on a closed
\* token and on a token in use.
C6_Witness ==
    /\ listeners # << >>
    /\ \E id, other \in DOMAIN tokens :
           /\ StateOf(tokens[id]) = closed
           /\ UseResult(id, << >>).err = ErrBadState
           /\ AllocateResult(id).err = ErrClosedToken
           /\ StateOf(tokens[other]) = inUse
           /\ UseResult(other, << >>).err = ErrBadState
    /\ stopUsing(UnknownId).err = ErrInvalidId

(***************************************************************************)
(* C7.  A successful Restore(m) on an untouched pool gives the first       *)
(* k = min(|m[n]|, |byName[n]|) tokens of every known name n the ids       *)
(* m[n][0..k-1] and sets exactly those tokens Allocated; afterwards        *)
(* Find(m[n][i]) returns n, a replaced id that m does not hand out again   *)
(* is unknown, every other token keeps its id and stays Free, and unknown  *)
(* names are ignored without error.                                        *)
(***************************************************************************)
\* The ids m names.
C7_Ids(m) == UNION { Range(e.ids) : e \in Range(m) }

C7_Replaced(m) ==
    UNION { { tokensByNames[e.name][i] :
                i \in 1..Min(Len(e.ids), Len(tokensByNames[e.name])) } :
            e \in { x \in Range(m) : x.name \in DOMAIN tokensByNames } }

C7_Post(r, m) ==
    /\ r.err = NoError
    /\ \A e \in Range(m) :
           e.name \in DOMAIN tokensByNames =>
               \A i \in 1..Min(Len(e.ids), Len(tokensByNames[e.name])) :
                   LET tok == tokensByNames[e.name][i]
                   IN  /\ r.token[tok].id = e.ids[i]
                       /\ r.token[tok].state = allocated
                       /\ e.ids[i] \in DOMAIN r.tokens
                       /\ r.token[r.tokens[e.ids[i]]].name = e.name
                       /\ \/ token[tok].id \notin DOMAIN r.tokens
                          \/ token[tok].id \in C7_Ids(m)
    /\ \A tok \in DOMAIN token \ C7_Replaced(m) :
           /\ r.token[tok] = token[tok]
           /\ r.token[tok].state = free

C7_Restore ==
    [][ \A m \in WideRestoreInputs :
            (~dirty /\ Restore(m)) => C7_Post(RestoreResult(m), m) ]_vars

C8_Untouched ==
    /\ token = NewPool(CfgListeners).token
    /\ tokens = NewPool(CfgListeners).tokens
    /\ closedTokens = NewPool(CfgListeners).closedTokens

\* A step of Restore, Tokens, Find, Allocate, Free, Use or StopUsing: of the
\* steps of the pool, those that neither register a listener nor run one.
C8_CallStep == listeners' = listeners /\ invoked' = invoked

C9_Snapshot ==
    /\ DOMAIN TokensResult = DOMAIN tokensByNames
    /\ \A name \in DOMAIN tokensByNames :
           /\ Cardinality(DOMAIN TokensResult[name]) = Len(tokensByNames[name])
           /\ \A tok \in TokensOf(name) :
                  /\ token[tok].id \in DOMAIN TokensResult[name]
                  /\ TokensResult[name][token[tok].id] = (StateOf(tok) # closed)

C9_Tokens ==
    /\ []C9_Snapshot
    /\ [][ Tokens => UNCHANGED << pool, listeners, spawned, invoked >> ]_vars

(***************************************************************************)
(* C10.  Every listener registered before a call is started once by every  *)
(* successful Use and every successful stopUsing, the one Allocate and     *)
(* Free perform on a token in use included, and every started listener     *)
(* eventually runs; Allocate and Free on a token not in use, Find, Tokens, *)
(* Restore and every failed call start no listener; no listener runs more  *)
(* often than it was started.                                              *)
(***************************************************************************)
C10_InUse(id) == Known(id) /\ StateOf(tokens[id]) = inUse

\* A step of a successful Use or of a successful stopUsing.
C10_Transition(id, names) ==
    \/ Usable(id) /\ Use(id, names)
    \/ C10_InUse(id) /\ (StopUsing(id) \/ Allocate(id) \/ Free(id))

\* A step of a call that performs neither.
C10_NoTransition(id, names) ==
    \/ Tokens
    \/ Find(id)
    \/ ~Usable(id) /\ Use(id, names)
    \/ ~C10_InUse(id) /\ (StopUsing(id) \/ Allocate(id) \/ Free(id))

C10_Listeners ==
    /\ [](\A l \in DOMAIN listeners : invoked[l] <= spawned[l])
    /\ [][ \A id \in IdInputs, names \in NamesInputs :
               /\ C10_Transition(id, names) =>
                      spawned' = [ l \in DOMAIN listeners |-> spawned[l] + 1 ]
               /\ C10_NoTransition(id, names) => spawned' = spawned ]_vars
    /\ [][ \A m \in NarrowRestoreInputs : Restore(m) => spawned' = spawned ]_vars
    /\ \A l \in 1..MaxListeners, k \in 1..MaxFires :
           (l \in DOMAIN spawned /\ spawned[l] >= k)
               ~> (l \in DOMAIN invoked /\ invoked[l] >= k)

\* A listener started by a Use and by the stopUsing that ended it, and run
\* both times.
C10_Witness ==
    /\ listeners # << >>
    /\ spawned[1] = MaxFires
    /\ invoked[1] = MaxFires
    /\ InState(inUse) = {}

(***************************************************************************)
(* C11.  Listener dispatch cannot deadlock the pool: every call that has   *)
(* taken the lock, a Use or a stopUsing that starts listeners included,    *)
(* returns and releases the lock, whether or not the listeners it started  *)
(* have run; and every started listener, a listener that calls Tokens(),   *)
(* eventually takes the lock and completes, whatever other calls the       *)
(* goroutines make meanwhile.                                              *)
(***************************************************************************)
\* No goroutine stays inside a call for ever, the lock does not stay held
\* for ever, and the listeners that have run catch up, again and again, with
\* the listeners that were started (both counts only grow).
C11_NoDeadlock ==
    /\ \A t \in 1..NumThreads : []<>(threads[t].pc = "idle")
    /\ []<>(~locked)
    /\ \A l \in 1..MaxListeners :
           []<>(l \in DOMAIN spawned => invoked[l] = spawned[l])

\* A Use has returned and released the lock while a listener it started has
\* not yet run; an earlier listener has completed its Tokens().
C11_Witness ==
    /\ \A t \in 1..NumThreads : threads[t].pc = "idle"
    /\ ~locked
    /\ InState(inUse) # {}
    /\ listeners # << >>
    /\ entered[1] < spawned[1]
    /\ invoked[1] >= 1

(***************************************************************************)
(* C12.  Whatever the interleaving of concurrent calls, at most one call   *)
(* is inside the critical section of the pool; the lock is held exactly    *)
(* while a call is inside, so that every return, the error returns         *)
(* included, has released it; and every call returns the error and leaves  *)
(* the tokens, ids and closure sets that the same call leaves when run     *)
(* alone on the pool it found when it took the lock: the calls take        *)
(* effect one at a time, in the order they took the lock.                  *)
(***************************************************************************)
\* The goroutines between Lock() and Unlock(): callers and listeners.
C12_Inside ==
    { << "caller", t, 0 >> : t \in { x \in 1..NumThreads : threads[x].pc # "idle" } }
        \cup { x \in { "listener" } \X (DOMAIN invoked) \X (1..MaxFires + 1) :
                 invoked[x[2]] < x[3] /\ x[3] <= entered[x[2]] }

C12_AsRunAlone(t) ==
    /\ threads[t].err = threads[t].expect.err
    /\ token = threads[t].expect.token
    /\ tokens = threads[t].expect.tokens
    /\ closedTokens = threads[t].expect.closedTokens

C12_Serial ==
    /\ [](Cardinality(C12_Inside) <= 1)
    /\ [](locked <=> C12_Inside # {})
    /\ [][ \A t \in 1..NumThreads : Unlock(t) => C12_AsRunAlone(t) ]_vars

\* A Use is about to return BadState through the deferred Unlock, on a pool
\* where an earlier Use has closed a token and its listeners are started.
C12_Witness ==
    /\ \E t \in 1..NumThreads :
           /\ threads[t].pc = "unlock"
           /\ threads[t].op = "Use"
           /\ threads[t].err = ErrBadState
    /\ InState(closed) # {}
    /\ listeners # << >>
    /\ spawned[1] >= 1

(***************************************************************************)
(* C13.  A Request whose connection carries sriovToken = name, for which   *)
(* the assignment oracle returns no id, fails with NoFreeToken; the        *)
(* downstream client is not invoked for it, and it assigns and releases no *)
(* token.                                                                  *)
(***************************************************************************)
C13_Labelled(request) == sriovTokenLabel \in DOMAIN request.labels

C13_NoFreeToken ==
    /\ \A request \in RequestInputs, down \in DownInputs :
           ( /\ C13_Labelled(request)
             /\ assign(request.labels[sriovTokenLabel], request.conn).id = "" ) =>
               /\ RequestResult(request, down).err = ErrNoFreeToken
               /\ ~RequestResult(request, down).invoked
               /\ RequestResult(request, down).assigned = assigned
    /\ last.err = ErrNoFreeToken => ~last.invoked /\ last.forwarded = << >>

\* A Request for a name the environment offers has failed with NoFreeToken,
\* every id of the name being held by other connections.
C13_Witness ==
    /\ last.op = "Request"
    /\ last.err = ErrNoFreeToken
    /\ ~last.invoked
    /\ C13_Labelled(last.request)
    /\ last.request.labels[sriovTokenLabel] \in DOMAIN EnvTokens
    /\ HeldBy(assigned, last.conn) = {}

(***************************************************************************)
(* C14.  When the downstream Request fails for a connection to which this  *)
(* Request assigned a token: a connection that held no token before the    *)
(* Request holds none after it (the token is released), a connection that  *)
(* held one still holds it, no other connection is touched, and the caller *)
(* gets the downstream error.                                              *)
(***************************************************************************)
C14_ReleaseOnError ==
    \A request \in RequestInputs :
        ( /\ C13_Labelled(request)
          /\ assign(request.labels[sriovTokenLabel], request.conn).id # "" ) =>
            LET r == RequestResult(request, "fail")
                id == assign(request.labels[sriovTokenLabel], request.conn).id
            IN  /\ r.err = ErrDownstream
                /\ r.invoked
                /\ HeldBy(assigned, request.conn) = {} =>
                       HeldBy(r.assigned, request.conn) = {}
                /\ HeldBy(assigned, request.conn) # {} => r.assigned[id] = request.conn
                /\ \A c \in Conns \ { request.conn } :
                       HeldBy(r.assigned, c) = HeldBy(assigned, c)

\* The downstream client has failed a labelled Request of a connection that
\* held no token: the request reached it with a token id, and the connection
\* holds none now, while another connection keeps its own.
C14_Witness ==
    /\ last.op = "Request"
    /\ last.err = ErrDownstream
    /\ C13_Labelled(last.request)
    /\ last.invoked
    /\ last.held = {}
    /\ serviceDomainLabel \in DOMAIN last.forwarded.labels
    /\ HeldBy(assigned, last.conn) = {}
    /\ \E c \in Conns : HeldBy(assigned, c) # {}

(***************************************************************************)
(* C15.  Close(conn) releases the token of conn before it forwards Close   *)
(* downstream, whatever downstream returns: the downstream Close is        *)
(* invoked with the connection holding no token, after Close the           *)
(* connection holds none, no other connection is touched, and the id it    *)
(* held is held by no connection, so that it is assignable again.          *)
(***************************************************************************)
C15_CloseReleases ==
    /\ \A conn \in Conns, down \in DownInputs :
           LET r == CloseResult(conn, down)
           IN  /\ r.invoked
               /\ r.forwarded.held = {}
               /\ HeldBy(r.assigned, conn) = {}
               /\ \A c \in Conns \ { conn } : HeldBy(r.assigned, c) = HeldBy(assigned, c)
               /\ \A id \in HeldBy(assigned, conn) : r.assigned[id] = ""
               /\ r.err = (IF down = "ok" THEN NoError ELSE ErrDownstream)
    /\ last.op = "Close" =>
           /\ HeldBy(assigned, last.conn) = {}
           /\ \A id \in last.held : assigned[id] = ""

\* A connection that held a token has been closed with the downstream Close
\* failing: it holds none now and the id is free.
C15_Witness ==
    /\ last.op = "Close"
    /\ last.held # {}
    /\ last.err = ErrDownstream
    /\ last.forwarded.held = {}
    /\ HeldBy(assigned, last.conn) = {}

(***************************************************************************)
(* C16. A Request labelled sriovToken = name that is assigned an id is     *)
(* forwarded as a clone: the clone has no sriovToken label, its            *)
(* serviceDomain label is the first segment of name, every mechanism       *)
(* preference of it carries deviceTokenId = id, and the rest of the        *)
(* request is as it was.  When the downstream client succeeds the returned *)
(* connection has sriovToken = name again and no serviceDomain label.  A   *)
(* Request without the label is forwarded as it is and assigns no token.   *)
(***************************************************************************)
C16_Others(labels) == DOMAIN labels \ { sriovTokenLabel, serviceDomainLabel }

C16_Forwarding ==
    \A request \in RequestInputs, down \in DownInputs :
        LET r == RequestResult(request, down)
        IN  IF C13_Labelled(request)
            THEN LET name == request.labels[sriovTokenLabel]
                     id == assign(name, request.conn).id
                 IN  id # "" =>
                       /\ r.invoked
                       /\ r.forwarded.conn = request.conn
                       /\ sriovTokenLabel \notin DOMAIN r.forwarded.labels
                       /\ serviceDomainLabel \in DOMAIN r.forwarded.labels
                       /\ r.forwarded.labels[serviceDomainLabel] = Head(name)
                       /\ C16_Others(r.forwarded.labels) = C16_Others(request.labels)
                       /\ \A k \in C16_Others(request.labels) :
                              r.forwarded.labels[k] = request.labels[k]
                       /\ Len(r.forwarded.mechs) = Len(request.mechs)
                       /\ \A i \in 1..Len(request.mechs) :
                              /\ DeviceTokenIDKey \in DOMAIN r.forwarded.mechs[i]
                              /\ r.forwarded.mechs[i][DeviceTokenIDKey] = id
                       /\ down = "ok" =>
                              /\ r.err = NoError
                              /\ sriovTokenLabel \in DOMAIN r.conn.labels
                              /\ r.conn.labels[sriovTokenLabel] = name
                              /\ serviceDomainLabel \notin DOMAIN r.conn.labels
            ELSE /\ r.invoked
                 /\ r.forwarded = request
                 /\ r.assigned = assigned
                 /\ down = "ok" => r.conn.labels = request.labels

\* A labelled Request with a stale deviceTokenId in a mechanism preference
\* and a serviceDomain label of its own has succeeded: the downstream client
\* saw the domain of the name and the assigned id, the caller got the label
\* back.
C16_Witness ==
    /\ last.op = "Request"
    /\ last.err = NoError
    /\ C13_Labelled(last.request)
    /\ serviceDomainLabel \in DOMAIN last.request.labels
    /\ Len(last.request.mechs) = 2
    /\ last.forwarded.labels[serviceDomainLabel] = "d2"
    /\ last.forwarded.mechs[2][DeviceTokenIDKey] \in last.held \cup HeldBy(assigned, last.conn)
    /\ last.returned.labels[sriovTokenLabel] = << "d2", "10G" >>

(***************************************************************************)
(* C17. Selection of the resource pool is sticky: Select calls repeated    *)
(* with the same token id and the same driver kind return the same PCI     *)
(* address while the token holds its virtual function, and after           *)
(* Free(pciAddr) of that address a new Select for the same token and       *)
(* driver returns that address again.                                      *)
(***************************************************************************)
\* The last call of the resource pool was a Select, the one before it an op
\* for the same token and driver that returned no error.
C17_SelectAfter(op) ==
    /\ sel.op = "Select"
    /\ sel.prev.op = op

C17_Repeated ==
    C17_SelectAfter("Select") => sel.err = NoError /\ sel.addr = sel.prev.addr

C18_Positions(n, state) ==
    { i \in DOMAIN MapGet(tokensByNames, n) :
        token[MapGet(tokensByNames, n)[i]].state = state }

C18_First(S) == CHOOSE i \in S : \A j \in S : i <= j

\* The token the policy names for n: 0 for none.
C18_Chosen(n) ==
    LET toks == MapGet(tokensByNames, n)
    IN  IF C18_Positions(n, free) # {} THEN toks[C18_First(C18_Positions(n, free))]
        ELSE IF C18_Positions(n, allocated) # {}
        THEN toks[C18_First(C18_Positions(n, allocated))]
        ELSE 0

C18_ClosePolicy ==
    \A id \in DOMAIN tokens :
        Usable(id) =>
            /\ \A n \in NameInputs \ { token[tokens[id]].name } :
                   LET r == UseResult(id, << n >>)
                       tok == tokens[id]
                       marked == [ token EXCEPT ![tok].state = inUse ]
                       c == C18_Chosen(n)
                   IN  /\ r.err = NoError
                       /\ c = 0 =>
                              /\ r.token = marked
                              /\ r.closedTokens = closedTokens
                       /\ c # 0 =>
                              /\ r.token = [ marked EXCEPT ![c].state = closed ]
                              /\ r.closedTokens =
                                     MapPut(closedTokens, token[tok].id,
                                            Append(MapGet(closedTokens, token[tok].id), c))
            /\ \A names \in NamesInputs :
                   LET r == UseResult(id, names)
                   IN  /\ r.err = NoError
                       /\ \A t \in DOMAIN token :
                              (token[t].state = allocated /\ r.token[t].state = closed) =>
                                  \A u \in Range(MapGet(tokensByNames, token[t].name)) :
                                      r.token[u].state # free

\* One name has an allocated token before a free one, another has only
\* tokens in use or closed, and a token of a third state of affairs can be
\* put in use: Use closes the free one of the first name, and none of the
\* second.
C18_Witness ==
    \E id \in DOMAIN tokens, n \in KnownNames :
        /\ Usable(id)
        /\ token[tokens[id]].name # n
        /\ C18_Positions(n, allocated) # {}
        /\ C18_Positions(n, free) # {}
        /\ C18_First(C18_Positions(n, allocated)) < C18_First(C18_Positions(n, free))
        /\ UseResult(id, << n >>).token[C18_Chosen(n)].state = closed
        /\ token[C18_Chosen(n)].state = free

(***************************************************************************)
(* C19. For every known token id, in every reachable state of the pool,    *)
(* Allocate(id) followed by Free(id), with no other call in between,       *)
(* leaves the token of that id free.                                       *)
(***************************************************************************)
\* The last two calls were Allocate(id) and Free(id), of a known id.
C19_AllocateThenFree ==
    /\ called.op = "Free"
    /\ called.after # ""
    /\ called.id \in DOMAIN tokens

\* As the claim states it.
C19_AllocateFree ==
    C19_AllocateThenFree => token[find(called.id)].state = free

\* C19 as it holds: Allocate fails on a closed token and on no other; when
\* Allocate(id) has returned no error, Free(id) leaves the token free; when
\* it has failed with ClosedToken, Free(id) returns no error and the token
\* is closed as before.
C19_AllocateFreeUnlessClosed ==
    /\ \A id \in DOMAIN tokens :
           AllocateResult(id).err =
               (IF token[find(id)].state = closed THEN ErrClosedToken ELSE NoError)
    /\ C19_AllocateThenFree =>
           /\ called.err = NoError
           /\ called.after \in { NoError, ErrClosedToken }
           /\ called.after = NoError => token[find(called.id)].state = free
           /\ called.after = ErrClosedToken => token[find(called.id)].state = closed

\* A token has been allocated and freed with no call in between, while
\* another token was allocated and none was in use or closed: it is free.
C19_Witness ==
    /\ C19_AllocateThenFree
    /\ called.after = NoError
    /\ token[find(called.id)].state = free
    /\ InState(closed) = {}
    /\ InState(inUse) = {}
    /\ InState(allocated) # {}

(***************************************************************************)
(* C20. Closure bookkeeping: in every reachable state a token is closed if *)
(* and only if it is in closedTokens[k] for exactly one key k, it is there *)
(* exactly once, and the token of id k is in use; closedTokens has no      *)
(* entry for an id whose token is not in use.  So every closed token can   *)
(* be returned to free by StopUsing, Allocate or Free of its owner, and no *)
(* token stays closed without an owner in use.                             *)
(***************************************************************************)
\* The keys of closedTokens whose list holds the token.
C20_Owners(t) == { k \in DOMAIN closedTokens : t \in Range(closedTokens[k]) }

\* The token of id k is in use.
C20_InUse(k) == k \in DOMAIN tokens /\ token[tokens[k]].state = inUse

C20_Bookkeeping ==
    /\ \A t \in DOMAIN token :
           token[t].state = closed <=>
               /\ Cardinality(C20_Owners(t)) = 1
               /\ \A k \in C20_Owners(t) :
                      /\ Cardinality({ i \in DOMAIN closedTokens[k] :
                                         closedTokens[k][i] = t }) = 1
                      /\ C20_InUse(k)
    /\ \A k \in DOMAIN closedTokens : C20_InUse(k)

C20_Returnable ==
    \A t \in DOMAIN token :
        token[t].state = closed =>
            \E k \in C20_Owners(t) :
                /\ C20_InUse(k)
                /\ stopUsing(k).err = NoError
                /\ stopUsing(k).token[t].state = free
                /\ AllocateResult(k).err = NoError
                /\ AllocateResult(k).token[t].state = free
                /\ FreeResult(k).err = NoError
                /\ FreeResult(k).token[t].state = free

C20_ClosureInvariant == C20_Bookkeeping /\ C20_Returnable

\* Two tokens are in use, each with a closed token of its own.
C20_Witness ==
    \E j, k \in DOMAIN closedTokens :
        /\ j # k
        /\ C20_InUse(j)
        /\ C20_InUse(k)
        /\ closedTokens[j] # << >>
        /\ closedTokens[k] # << >>
        /\ \A t \in Range(closedTokens[j]) \cup Range(closedTokens[k]) :
               token[t].state = closed

(***************************************************************************)
(* C21. Index consistency: after any sequence of operations, a Restore     *)
(* with arbitrary id lists included (ids repeated within a name, repeated  *)
(* across names, or equal to the generated id of another token), the ids   *)
(* of the tokens are unique and every token of tokensByNames is found in   *)
(* tokens under its current id: for every (name, id) Tokens() reports,     *)
(* Find(id) succeeds and returns the name.  The set of tokens and their    *)
(* names never change after construction.                                  *)
(***************************************************************************)
C21_UniqueIds ==
    \A t, u \in DOMAIN token : t # u => token[t].id # token[u].id

C21_Reachable ==
    \A name \in DOMAIN tokensByNames :
        /\ \A tok \in Range(tokensByNames[name]) :
               /\ token[tok].id \in DOMAIN tokens
               /\ tokens[token[tok].id] = tok
        /\ \A id \in DOMAIN TokensResult[name] :
               /\ FindResult(id).err = NoError
               /\ FindResult(id).name = name

C21_SameTokens ==
    /\ DOMAIN token' = DOMAIN token
    /\ \A t \in DOMAIN token : token'[t].name = token[t].name
    /\ tokensByNames' = tokensByNames

C21_IndexConsistency ==
    /\ [](C21_UniqueIds /\ C21_Reachable)
    /\ [][C21_SameTokens]_vars

(***************************************************************************)
(* C22. No preemption of tokens in use: a token in use changes state only  *)
(* through StopUsing, Allocate or Free called with its own id; no Use,     *)
(* StopUsing, Allocate or Free of another id changes the state of a token  *)
(* in use, and a Use never closes the token it is marking in use.          *)
(***************************************************************************)
\* The tokens in use other than the token of id.
C22_OthersInUse(id) == { t \in InState(inUse) : t # find(id) }

\* The call with result r leaves the tokens in use, but that of id, as they are.
C22_Keeps(r, id) == \A t \in C22_OthersInUse(id) : r.token[t] = token[t]

\* The step is StopUsing, Allocate or Free of the id of token t.
C22_OwnCall(t) ==
    /\ find(token[t].id) = t
    /\ \/ token' = stopUsing(token[t].id).token
       \/ token' = AllocateResult(token[t].id).token
       \/ token' = FreeResult(token[t].id).token

C22_NoPreemption ==
    /\ [](\A id \in IdInputs :
              /\ C22_Keeps(stopUsing(id), id)
              /\ C22_Keeps(AllocateResult(id), id)
              /\ C22_Keeps(FreeResult(id), id)
              /\ \A names \in NamesInputs :
                     LET r == UseResult(id, names)
                     IN  /\ C22_Keeps(r, id)
                         /\ r.err = NoError => r.token[find(id)].state = inUse)
    /\ [][ \A t \in DOMAIN token :
               (token[t].state = inUse /\ token'[t].state # inUse) => C22_OwnCall(t) ]_vars

\* A token is in use, and another can be put in use with its own name and
\* the name of the first among the names: that Use will close a token.
C22_Witness ==
    \E id \in DOMAIN tokens, names \in NamesInputs :
        /\ C22_OthersInUse(id) # {}
        /\ Usable(id)
        /\ token[find(id)].name \in Range(names)
        /\ \E t \in C22_OthersInUse(id) : token[t].name \in Range(names)
        /\ \E t \in DOMAIN token : UseResult(id, names).token[t].state = closed
                                     /\ token[t].state # closed

=============================================================================
